---------------------------- MODULE Spec2Model ----------------------------
(***************************************************************************)
(* TxSponsored (crates/consensus/src/transaction/sponsored.rs): the field  *)
(* codec, the signing preimage, the fee query, the size heuristic and the  *)
(* bincode-compatible mirror.                                              *)
(*                                                                         *)
(* Bytes are naturals 0..255 and buffers are sequences of bytes.  Integer  *)
(* fields are naturals; the values drawn are below 2^31, the fee fields    *)
(* of the fee specification are drawn from the whole of a FeeBits-wide     *)
(* unsigned type.                                                          *)
(***************************************************************************)
EXTENDS Integers, Sequences, FiniteSets, TLC

VARIABLES
    tx,      \* the TxSponsored record
    homed,   \* whether set_chain_id has been called on it
    op,      \* the operation that ran last
    out,     \* the output buffer of the last encoder
    whole,   \* whether out still holds all the bytes the encoder wrote
    len,     \* what the length function of the last encoder returned
    res      \* what the last decoder, conversion or query returned

vars == <<tx, homed, op, out, whole, len, res>>

(***************************************************************************)
(* Bounds of the model.                                                    *)
(***************************************************************************)
\* how many fields of a record differ from TxSponsored::default()
MaxVaried == 2
\* the same, for the records whose encodings are truncated
MaxVariedTrunc == 1
\* length of the long `input` (56 is the first length with a long RLP header)
LongInputLen == 56
\* width in bits of the model's u128 (fee fields) and of its u64 base fee
FeeBits == 6
BaseBits == 6

(***************************************************************************)
(* Program constants.                                                      *)
(***************************************************************************)
SizeOfChainId == 8
SizeOfU64 == 8
SizeOfU128 == 16
SizeOfU256 == 32
\* TxKind::size() is mem::size_of::<TxKind>() for both variants
SizeOfTxKind == 21
AddressLen == 20
\* alloy_rlp::EMPTY_STRING_CODE and EMPTY_LIST_CODE
EMPTY_STRING_CODE == 128
EMPTY_LIST_CODE == 192
\* TxType::Sponsored as u8
TxTypeSponsored == 100

(***************************************************************************)
(* Byte-string helpers.                                                    *)
(***************************************************************************)
RECURSIVE to_be_bytes(_)
\* x.to_be_bytes() with the leading zero bytes cut off
to_be_bytes(x) ==
    IF x = 0 THEN <<>> ELSE Append(to_be_bytes(x \div 256), x % 256)

RECURSIVE from_be_bytes(_)
from_be_bytes(bs) ==
    IF Len(bs) = 0 THEN 0
    ELSE from_be_bytes(SubSeq(bs, 1, Len(bs) - 1)) * 256 + bs[Len(bs)]

RECURSIVE Repeat(_, _)
Repeat(b, n) == IF n = 0 THEN <<>> ELSE <<b>> \o Repeat(b, n - 1)

RECURSIVE Pow2(_)
Pow2(n) == IF n = 0 THEN 1 ELSE 2 * Pow2(n - 1)

Drop(buf, n) == SubSeq(buf, n + 1, Len(buf))

Ok(v, rest) == [ok |-> TRUE, val |-> v, rest |-> rest]
Err(e) == [ok |-> FALSE, err |-> e]

(***************************************************************************)
(* alloy_rlp::Header.                                                      *)
(***************************************************************************)
length_of_length(n) == IF n < 56 THEN 1 ELSE 1 + Len(to_be_bytes(n))

HeaderEncode(list, n) ==
    LET code == IF list THEN EMPTY_LIST_CODE ELSE EMPTY_STRING_CODE
        be == to_be_bytes(n)
    IN  IF n < 56 THEN <<code + n>> ELSE <<code + 55 + Len(be)>> \o be

\* the check Header::decode ends with
HeaderFits(list, n, rest) ==
    IF Len(rest) < n THEN Err("InputTooShort")
    ELSE [ok |-> TRUE, list |-> list, payload_length |-> n, rest |-> rest]

HeaderDecode(buf) ==
    IF Len(buf) = 0 THEN Err("InputTooShort")
    ELSE LET b == buf[1]
             rest == Tail(buf)
         IN  IF b < EMPTY_STRING_CODE THEN HeaderFits(FALSE, 1, buf)
             ELSE IF b <= 183 THEN
                 LET n == b - EMPTY_STRING_CODE
                 IN  IF n = 1 /\ Len(rest) = 0 THEN Err("InputTooShort")
                     ELSE IF n = 1 /\ rest[1] < EMPTY_STRING_CODE
                          THEN Err("NonCanonicalSingleByte")
                     ELSE HeaderFits(FALSE, n, rest)
             ELSE IF b <= 191 \/ b >= 248 THEN
                 LET list == b >= 248
                     lol == b - (IF list THEN 247 ELSE 183)
                 IN  IF Len(rest) < lol THEN Err("InputTooShort")
                     ELSE IF rest[1] = 0 THEN Err("LeadingZero")
                     ELSE LET n == from_be_bytes(SubSeq(rest, 1, lol))
                          IN  IF n < 56 THEN Err("NonCanonicalSize")
                              ELSE HeaderFits(list, n, Drop(rest, lol))
             ELSE HeaderFits(TRUE, b - EMPTY_LIST_CODE, rest)

\* Header::decode_bytes(buf, false): the payload of a string item
DecodeBytes(buf) ==
    LET h == HeaderDecode(buf)
    IN  IF ~h.ok THEN h
        ELSE IF h.list THEN Err("UnexpectedList")
        ELSE Ok(SubSeq(h.rest, 1, h.payload_length), Drop(h.rest, h.payload_length))

(***************************************************************************)
(* Encodable / Decodable of the field types.                               *)
(***************************************************************************)
UintEncode(x) ==
    IF x = 0 THEN <<EMPTY_STRING_CODE>>
    ELSE IF x < EMPTY_STRING_CODE THEN <<x>>
    ELSE LET be == to_be_bytes(x) IN <<EMPTY_STRING_CODE + Len(be)>> \o be

UintLength(x) ==
    IF x < EMPTY_STRING_CODE THEN 1 ELSE 1 + Len(to_be_bytes(x))

\* static_left_pad::<N> of the payload, then from_be_bytes
UintDecode(buf, N) ==
    LET d == DecodeBytes(buf)
    IN  IF ~d.ok THEN d
        ELSE IF Len(d.val) > N THEN Err("Overflow")
        ELSE IF Len(d.val) = 0 THEN Ok(0, d.rest)
        ELSE IF d.val[1] = 0 THEN Err("LeadingZero")
        ELSE Ok(from_be_bytes(d.val), d.rest)

BytesHasHeader(bs) == Len(bs) # 1 \/ bs[1] >= EMPTY_STRING_CODE

BytesEncode(bs) ==
    IF BytesHasHeader(bs) THEN HeaderEncode(FALSE, Len(bs)) \o bs ELSE bs

BytesLength(bs) ==
    Len(bs) + (IF BytesHasHeader(bs) THEN length_of_length(Len(bs)) ELSE 0)

Create == [kind |-> "Create", addr |-> <<>>]
Call(a) == [kind |-> "Call", addr |-> a]

TxKindEncode(to) ==
    IF to.kind = "Call" THEN <<EMPTY_STRING_CODE + AddressLen>> \o to.addr
    ELSE <<EMPTY_STRING_CODE>>

TxKindLength(to) == IF to.kind = "Call" THEN 1 + AddressLen ELSE 1

TxKindDecode(buf) ==
    IF Len(buf) = 0 THEN Err("InputTooShort")
    ELSE IF buf[1] = EMPTY_STRING_CODE THEN Ok(Create, Tail(buf))
    ELSE LET d == DecodeBytes(buf)
         IN  IF ~d.ok THEN d
             ELSE IF Len(d.val) # AddressLen THEN Err("UnexpectedLength")
             ELSE Ok(Call(d.val), d.rest)

(***************************************************************************)
(* The record.                                                             *)
(***************************************************************************)
\* the fields in the order the struct declares them
DeclOrder ==
    << "chain_id", "nonce", "max_priority_fee_per_gas", "max_fee_per_gas",
       "gas_limit", "to", "value", "expired_time", "payer_v", "payer_r",
       "payer_s", "input" >>

Fields == {DeclOrder[i] : i \in 1..Len(DeclOrder)}

\* the type of each field: "u64", "u128", "U256", "TxKind" or "Bytes"
FieldType ==
    [chain_id |-> "u64", nonce |-> "u64",
     max_priority_fee_per_gas |-> "u128", max_fee_per_gas |-> "u128",
     gas_limit |-> "u64", to |-> "TxKind", value |-> "U256",
     expired_time |-> "u64", payer_v |-> "U256", payer_r |-> "U256",
     payer_s |-> "U256", input |-> "Bytes"]

\* #[derive(Default)]
Default ==
    [chain_id |-> 0, nonce |-> 0, max_priority_fee_per_gas |-> 0,
     max_fee_per_gas |-> 0, gas_limit |-> 0, to |-> Create, value |-> 0,
     expired_time |-> 0, payer_v |-> 0, payer_r |-> 0, payer_s |-> 0,
     input |-> <<>>]

WidthOf(t) ==
    CASE t = "u64" -> SizeOfU64
      [] t = "u128" -> SizeOfU128
      [] t = "U256" -> SizeOfU256

FieldEncode(t, v) ==
    CASE t = "TxKind" -> TxKindEncode(v)
      [] t = "Bytes" -> BytesEncode(v)
      [] OTHER -> UintEncode(v)

FieldLength(t, v) ==
    CASE t = "TxKind" -> TxKindLength(v)
      [] t = "Bytes" -> BytesLength(v)
      [] OTHER -> UintLength(v)

FieldDecode(t, buf) ==
    CASE t = "TxKind" -> TxKindDecode(buf)
      [] t = "Bytes" -> DecodeBytes(buf)
      [] OTHER -> UintDecode(buf, WidthOf(t))


(***************************************************************************)
(* impl RlpEcdsaTx for TxSponsored.                                        *)
(***************************************************************************)
DEFAULT_TX_TYPE == TxTypeSponsored

tx_type == TxTypeSponsored

\* mutant: the sum of TxEip1559, the sponsor fields forgotten
LengthOrderEip1559 ==
    << "chain_id", "nonce", "max_priority_fee_per_gas", "max_fee_per_gas",
       "gas_limit", "to", "value", "input" >>

\* the fields rlp_encoded_fields_length adds up, in the order of its sum
LengthOrder ==
    << "chain_id", "nonce", "max_priority_fee_per_gas", "max_fee_per_gas",
       "gas_limit", "to", "value", "input", "expired_time", "payer_v",
       "payer_r", "payer_s" >>

\* mutant: the fields encoded in the order the struct declares them
EncodeOrderDeclared ==
    << "chain_id", "nonce", "max_priority_fee_per_gas", "max_fee_per_gas",
       "gas_limit", "to", "value", "expired_time", "payer_v", "payer_r",
       "payer_s", "input" >>

\* the fields rlp_encode_fields encodes, in the order of its statements
EncodeOrder ==
    << "chain_id", "nonce", "max_priority_fee_per_gas", "max_fee_per_gas",
       "gas_limit", "to", "value", "input", "expired_time", "payer_v",
       "payer_r", "payer_s" >>

\* mutant: payer_r and payer_s decoded into each other's field
DecodeOrderSwapped ==
    << "chain_id", "nonce", "max_priority_fee_per_gas", "max_fee_per_gas",
       "gas_limit", "to", "value", "input", "expired_time", "payer_v",
       "payer_s", "payer_r" >>

\* mutant: the struct literal of TxEip1559, the sponsor fields never decoded
DecodeOrderEip1559 ==
    << "chain_id", "nonce", "max_priority_fee_per_gas", "max_fee_per_gas",
       "gas_limit", "to", "value", "input" >>

\* the fields rlp_decode_fields decodes, in the order of its struct literal
DecodeOrder ==
    << "chain_id", "nonce", "max_priority_fee_per_gas", "max_fee_per_gas",
       "gas_limit", "to", "value", "input", "expired_time", "payer_v",
       "payer_r", "payer_s" >>

RECURSIVE SumLengths(_, _, _)
SumLengths(r, order, i) ==
    IF i > Len(order) THEN 0
    ELSE FieldLength(FieldType[order[i]], r[order[i]]) + SumLengths(r, order, i + 1)

rlp_encoded_fields_length(r) == SumLengths(r, LengthOrder, 1)

RECURSIVE ConcatFields(_, _, _)
ConcatFields(r, order, i) ==
    IF i > Len(order) THEN <<>>
    ELSE FieldEncode(FieldType[order[i]], r[order[i]]) \o ConcatFields(r, order, i + 1)

rlp_encode_fields(r) == ConcatFields(r, EncodeOrder, 1)

RECURSIVE DecodeFrom(_, _, _, _)
\* field i of the struct literal and the ones after it; `?` returns the first
\* error.  acc holds the fields decoded so far, reads what each consumed.
DecodeFrom(i, buf, acc, reads) ==
    IF i > Len(DecodeOrder)
    THEN [ok |-> TRUE, val |-> acc, rest |-> buf, reads |-> reads]
    ELSE LET f == DecodeOrder[i]
             d == FieldDecode(FieldType[f], buf)
         IN  IF ~d.ok THEN d
             ELSE DecodeFrom(i + 1, d.rest, acc @@ (f :> d.val),
                     Append(reads, [field |-> f,
                                    bytes |-> SubSeq(buf, 1, Len(buf) - Len(d.rest))]))

rlp_decode_fields(buf) == DecodeFrom(1, buf, <<>>, <<>>)

\* RlpEcdsaTx's provided methods
rlp_header(r) == [list |-> TRUE, payload_length |-> rlp_encoded_fields_length(r)]

rlp_encoded_length(r) ==
    length_of_length(rlp_header(r).payload_length) + rlp_header(r).payload_length

rlp_encode(r) ==
    HeaderEncode(rlp_header(r).list, rlp_header(r).payload_length)
        \o rlp_encode_fields(r)

rlp_decode(buf) ==
    LET h == HeaderDecode(buf)
    IN  IF ~h.ok THEN h
        ELSE IF ~h.list THEN Err("UnexpectedString")
        ELSE LET d == rlp_decode_fields(h.rest)
             IN  IF ~d.ok THEN d
                 ELSE IF Len(d.rest) + h.payload_length # Len(h.rest)
                      THEN Err("UnexpectedLength")
                 ELSE d

(***************************************************************************)
(* impl Encodable / Decodable / Typed2718 / SignableTransaction.           *)
(***************************************************************************)
encode(r) == rlp_encode(r)

length(r) == rlp_encoded_length(r)

decode(buf) == rlp_decode(buf)

ty(r) == TxTypeSponsored

set_chain_id(r, chain_id) == [r EXCEPT !.chain_id = chain_id]

\* mutant: the fields written without their list header
encode_for_signing_no_header(r) == <<tx_type>> \o rlp_encode_fields(r)

encode_for_signing(r) == <<tx_type>> \o encode(r)

\* mutant: the type byte not counted
payload_len_no_type_byte(r) == length(r)

payload_len_for_signature(r) == length(r) + 1

(***************************************************************************)
(* TxSponsored::size.                                                      *)
(***************************************************************************)
TxKindSize(to) == SizeOfTxKind

\* mutant: the encoded length of `to` in place of its size
size_to_length(r) ==
    SizeOfChainId + SizeOfU64 + SizeOfU64 + SizeOfU128 + SizeOfU128
        + TxKindLength(r.to) + SizeOfU256 + SizeOfU64 + SizeOfU256 + SizeOfU256
        + SizeOfU256 + Len(r.input)

size(r) ==
    SizeOfChainId + SizeOfU64 + SizeOfU64 + SizeOfU128 + SizeOfU128
        + TxKindSize(r.to) + SizeOfU256 + SizeOfU64 + SizeOfU256 + SizeOfU256
        + SizeOfU256 + Len(r.input)

(***************************************************************************)
(* serde_bincode_compat::TxSponsored.                                      *)
(***************************************************************************)
ToMirror(value) ==
    [chain_id |-> value.chain_id,
     nonce |-> value.nonce,
     gas_limit |-> value.gas_limit,
     max_fee_per_gas |-> value.max_fee_per_gas,
     max_priority_fee_per_gas |-> value.max_priority_fee_per_gas,
     to |-> value.to,
     value |-> value.value,
     expired_time |-> value.expired_time,
     payer_v |-> value.payer_v,
     payer_r |-> value.payer_r,
     payer_s |-> value.payer_s,
     input |-> [cow |-> "Borrowed", bytes |-> value.input]]

\* mutant: the two fee fields copied from each other
FromMirrorSwapped(value) ==
    [chain_id |-> value.chain_id,
     nonce |-> value.nonce,
     gas_limit |-> value.gas_limit,
     max_fee_per_gas |-> value.max_priority_fee_per_gas,
     max_priority_fee_per_gas |-> value.max_fee_per_gas,
     to |-> value.to,
     value |-> value.value,
     expired_time |-> value.expired_time,
     payer_v |-> value.payer_v,
     payer_r |-> value.payer_r,
     payer_s |-> value.payer_s,
     input |-> value.input.bytes]

FromMirror(value) ==
    [chain_id |-> value.chain_id,
     nonce |-> value.nonce,
     gas_limit |-> value.gas_limit,
     max_fee_per_gas |-> value.max_fee_per_gas,
     max_priority_fee_per_gas |-> value.max_priority_fee_per_gas,
     to |-> value.to,
     value |-> value.value,
     expired_time |-> value.expired_time,
     payer_v |-> value.payer_v,
     payer_r |-> value.payer_r,
     payer_s |-> value.payer_s,
     input |-> value.input.bytes]

(***************************************************************************)
(* Transaction::effective_gas_price, on a FeeBits-wide u128.               *)
(***************************************************************************)
FeeMod == Pow2(FeeBits)
BaseMod == Pow2(BaseBits)

saturating_sub(a, b) == IF a >= b THEN a - b ELSE 0

\* None, or Some(b)
None == [some |-> FALSE, v |-> 0]
Some(b) == [some |-> TRUE, v |-> b]

\* what the unchecked `+` gives and whether it overflowed
Added(a, b) ==
    [price |-> (a + b) % FeeMod, added |-> TRUE, overflow |-> a + b >= FeeMod]

Kept(p) == [price |-> p, added |-> FALSE, overflow |-> FALSE]

\* mutant: the tip compared with >=
effective_gas_price_ge(r, base_fee) ==
    IF ~base_fee.some THEN Kept(r.max_fee_per_gas)
    ELSE LET tip == saturating_sub(r.max_fee_per_gas, base_fee.v)
         IN  IF tip >= r.max_priority_fee_per_gas
             THEN Added(r.max_priority_fee_per_gas, base_fee.v)
             ELSE Kept(r.max_fee_per_gas)

\* mutant: the tip computed with a wrapping subtraction
effective_gas_price_wrapping(r, base_fee) ==
    IF ~base_fee.some THEN Kept(r.max_fee_per_gas)
    ELSE LET tip == (r.max_fee_per_gas - base_fee.v) % FeeMod
         IN  IF tip > r.max_priority_fee_per_gas
             THEN Added(r.max_priority_fee_per_gas, base_fee.v)
             ELSE Kept(r.max_fee_per_gas)

\* the price, and whether the unchecked `+` was evaluated and overflowed
\* (the price is then the wrapped sum a release build returns; a build with
\* overflow checks panics there)
effective_gas_price(r, base_fee) ==
    IF ~base_fee.some THEN Kept(r.max_fee_per_gas)
    ELSE LET tip == saturating_sub(r.max_fee_per_gas, base_fee.v)
         IN  IF tip > r.max_priority_fee_per_gas
             THEN Added(r.max_priority_fee_per_gas, base_fee.v)
             ELSE Kept(r.max_fee_per_gas)


(***************************************************************************)
(* The records and inputs drawn.                                           *)
(***************************************************************************)
U64Vals == {0, 127, 128, 300}
U128Vals == {0, 9, 128, 70000}
U256Vals == {0, 127, 255, 2147483647}
Addresses == {Repeat(0, AddressLen), [i \in 1..AddressLen |-> 200 + i]}
TxKinds == {Create} \cup {Call(a) : a \in Addresses}
Inputs ==
    { <<>>, <<0>>, <<127>>, <<128>>, <<1, 2>>, Repeat(7, LongInputLen) }

FieldDom(f) ==
    CASE FieldType[f] = "u64" -> U64Vals
      [] FieldType[f] = "u128" -> U128Vals
      [] FieldType[f] = "U256" -> U256Vals
      [] FieldType[f] = "TxKind" -> TxKinds
      [] FieldType[f] = "Bytes" -> Inputs

RECURSIVE Vary(_, _, _)
\* the records that differ from r in at most k of the fields fs
Vary(r, k, fs) ==
    IF k = 0 THEN {r}
    ELSE UNION {UNION {Vary([r EXCEPT ![f] = v], k - 1, fs) : v \in FieldDom(f)}
                  : f \in fs}

\* a draft is built with the default chain_id; set_chain_id re-homes it
Drafts(k) == Vary(Default, k, Fields \ {"chain_id"})

BaseFees == {None} \cup {Some(b) : b \in 0..(BaseMod - 1)}

(***************************************************************************)
(* The state machine: a record is built, re-homed, and handed to one of    *)
(* the operations; a decoder or the reverse conversion then runs on what   *)
(* that operation produced.                                                *)
(***************************************************************************)
Fresh ==
    /\ homed = FALSE
    /\ op = "new"
    /\ out = <<>>
    /\ whole = TRUE
    /\ len = 0
    /\ res = 0

Init == tx \in Drafts(MaxVaried) /\ Fresh

InitTrunc == tx \in Drafts(MaxVariedTrunc) /\ Fresh

InitFee ==
    /\ \E mf \in 0..(FeeMod - 1), mp \in 0..(FeeMod - 1) :
          tx = [Default EXCEPT !.max_fee_per_gas = mf,
                               !.max_priority_fee_per_gas = mp]
    /\ Fresh

SetChainId(chain_id) ==
    /\ op = "new"
    /\ tx' = set_chain_id(tx, chain_id)
    /\ homed' = TRUE
    /\ UNCHANGED <<op, out, whole, len, res>>

RlpEncodeFields ==
    /\ op = "new"
    /\ out' = rlp_encode_fields(tx)
    /\ len' = rlp_encoded_fields_length(tx)
    /\ op' = "rlp_encode_fields"
    /\ UNCHANGED <<tx, homed, whole, res>>

Encode ==
    /\ op = "new"
    /\ out' = encode(tx)
    /\ len' = length(tx)
    /\ op' = "encode"
    /\ UNCHANGED <<tx, homed, whole, res>>

EncodeForSigning ==
    /\ op = "new"
    /\ out' = encode_for_signing(tx)
    /\ len' = payload_len_for_signature(tx)
    /\ res' = ty(tx)
    /\ op' = "encode_for_signing"
    /\ UNCHANGED <<tx, homed, whole>>

\* the caller keeps only the first k bytes of the encoding
Truncate(k) ==
    /\ op \in {"rlp_encode_fields", "encode"}
    /\ whole
    /\ k < Len(out)
    /\ out' = SubSeq(out, 1, k)
    /\ whole' = FALSE
    /\ UNCHANGED <<tx, homed, op, len, res>>

RlpDecodeFields ==
    /\ op = "rlp_encode_fields"
    /\ res' = rlp_decode_fields(out)
    /\ op' = "rlp_decode_fields"
    /\ UNCHANGED <<tx, homed, out, whole, len>>

Decode ==
    /\ op = "encode"
    /\ res' = decode(out)
    /\ op' = "decode"
    /\ UNCHANGED <<tx, homed, out, whole, len>>

Size ==
    /\ op = "new"
    /\ res' = size(tx)
    /\ op' = "size"
    /\ UNCHANGED <<tx, homed, out, whole, len>>

IntoMirror ==
    /\ op = "new"
    /\ res' = ToMirror(tx)
    /\ op' = "to_mirror"
    /\ UNCHANGED <<tx, homed, out, whole, len>>

IntoRecord ==
    /\ op = "to_mirror"
    /\ res' = FromMirror(res)
    /\ op' = "from_mirror"
    /\ UNCHANGED <<tx, homed, out, whole, len>>

EffectiveGasPrice(base_fee) ==
    /\ op = "new"
    /\ res' = [base_fee |-> base_fee, got |-> effective_gas_price(tx, base_fee)]
    /\ op' = "effective_gas_price"
    /\ UNCHANGED <<tx, homed, out, whole, len>>

Next ==
    \/ \E c \in U64Vals : SetChainId(c)
    \/ RlpEncodeFields
    \/ RlpDecodeFields
    \/ Encode
    \/ Decode
    \/ EncodeForSigning
    \/ Size
    \/ IntoMirror
    \/ IntoRecord

Spec == Init /\ [][Next]_vars

NextTrunc ==
    \/ \E c \in U64Vals : SetChainId(c)
    \/ RlpEncodeFields
    \/ Encode
    \/ \E k \in 0..(Len(out) - 1) : Truncate(k)
    \/ RlpDecodeFields
    \/ Decode

SpecTrunc == InitTrunc /\ [][NextTrunc]_vars

NextFee == \E b \in BaseFees : EffectiveGasPrice(b)

SpecFee == InitFee /\ [][NextFee]_vars


(***************************************************************************)
(* The claims.                                                             *)
(***************************************************************************)
\* C1 (round trip): decoding the bytes rlp_encode_fields wrote for a record
\* succeeds, returns a record equal to it in all twelve fields, and leaves
\* the buffer empty.
C1_RoundTrip ==
    (op = "rlp_decode_fields" /\ whole) =>
        /\ res.ok
        /\ DOMAIN res.val = Fields
        /\ \A f \in Fields : res.val[f] = tx[f]
        /\ res.val = tx
        /\ res.rest = <<>>

C1_Witness ==
    /\ op = "rlp_decode_fields"
    /\ whole
    /\ res.ok
    /\ tx.to.kind = "Call"
    /\ Len(tx.input) = LongInputLen
    /\ res.val.input = tx.input

\* the order the claim states: the declaration order, `input` last
C2_ClaimedOrder == DeclOrder

\* the order rlp_decode_fields documents: `input` eighth, right after value
C2_WireOrder ==
    << "chain_id", "nonce", "max_priority_fee_per_gas", "max_fee_per_gas",
       "gas_limit", "to", "value", "input", "expired_time", "payer_v",
       "payer_r", "payer_s" >>

\* the encoder wrote, and the decoder read, the fields of tx in this order
InOrder(order) ==
    /\ op = "rlp_encode_fields" => out = ConcatFields(tx, order, 1)
    /\ (op = "rlp_decode_fields" /\ whole) =>
          /\ res.ok
          /\ Len(res.reads) = Len(order)
          /\ \A i \in 1..Len(order) :
                /\ res.reads[i].field = order[i]
                /\ res.reads[i].bytes
                      = FieldEncode(FieldType[order[i]], tx[order[i]])

\* C2 as stated (field order): rlp_encode_fields writes, and
\* rlp_decode_fields reads, the twelve fields in the declaration order of the
\* record, with `input` last, after the three payer fields.
C2_DeclarationOrder == InOrder(C2_ClaimedOrder)

\* C2 as amended (field order): rlp_encode_fields writes, and
\* rlp_decode_fields reads, the twelve fields in the order chain_id, nonce,
\* max_priority_fee_per_gas, max_fee_per_gas, gas_limit, to, value, input,
\* expired_time, payer_v, payer_r, payer_s: `input` is eighth, before
\* expired_time and the payer fields.
C2_DocumentedOrder == InOrder(C2_WireOrder)

C2_Witness ==
    /\ op = "rlp_decode_fields"
    /\ whole
    /\ res.ok
    /\ tx.input = <<1, 2>>
    /\ tx.payer_s = 255
    /\ res.reads[8].bytes = <<130, 1, 2>>
    /\ res.reads[12].bytes = <<129, 255>>

\* C3 (preimage length): payload_len_for_signature returns the number of
\* bytes encode_for_signing writes: the type byte, the list header and the
\* twelve field encodings.
C3_PreimageLength ==
    op = "encode_for_signing" =>
        /\ len = Len(out)
        /\ len = 1 + length_of_length(Len(rlp_encode_fields(tx)))
                   + Len(rlp_encode_fields(tx))

C3_Witness ==
    /\ op = "encode_for_signing"
    /\ homed
    /\ tx.to.kind = "Call"
    /\ Len(tx.input) = LongInputLen
    /\ len = Len(out)
    /\ out[2] = 248

\* C4 (length exactness): rlp_encoded_fields_length returns the number of
\* bytes rlp_encode_fields writes, the sum of the encoded lengths of the
\* fields the encoder writes, each of the twelve counted once.
C4_LengthExact ==
    op = "rlp_encode_fields" =>
        /\ len = Len(out)
        /\ len = SumLengths(tx, EncodeOrder, 1)
        /\ \A f \in Fields :
              /\ Cardinality({i \in 1..Len(LengthOrder) : LengthOrder[i] = f}) = 1
              /\ Cardinality({i \in 1..Len(EncodeOrder) : EncodeOrder[i] = f}) = 1
              /\ Len(FieldEncode(FieldType[f], tx[f]))
                    = FieldLength(FieldType[f], tx[f])

C4_Witness ==
    /\ op = "rlp_encode_fields"
    /\ tx.value = 2147483647
    /\ tx.to.kind = "Call"
    /\ len = Len(out)
    /\ len = 36

\* C5 (effective gas price): without a base fee the price is
\* max_fee_per_gas; with base fee b it is max_priority_fee_per_gas + b when
\* max(max_fee_per_gas - b, 0) > max_priority_fee_per_gas, and
\* max_fee_per_gas otherwise (the tie and b > max_fee_per_gas included).
C5_EffectiveGasPrice ==
    op = "effective_gas_price" =>
        LET b == res.base_fee
            mf == tx.max_fee_per_gas
            mp == tx.max_priority_fee_per_gas
            tip == IF mf - b.v > 0 THEN mf - b.v ELSE 0
        IN  /\ ~b.some => res.got.price = mf
            /\ (b.some /\ tip > mp) => res.got.price = mp + b.v
            /\ (b.some /\ tip <= mp) => res.got.price = mf

C5_Witness ==
    /\ op = "effective_gas_price"
    /\ tx.max_fee_per_gas = 50
    /\ tx.max_priority_fee_per_gas = 5
    /\ res.base_fee = Some(25)
    /\ res.got.price = 30

DecodeErrors ==
    { "InputTooShort", "NonCanonicalSingleByte", "NonCanonicalSize",
      "LeadingZero", "Overflow", "UnexpectedList", "UnexpectedString",
      "UnexpectedLength" }

\* C6 (truncation): decoding a strict prefix of the bytes an encoder wrote
\* for a record returns a DecodeError and no record.
C6_RejectsTruncation ==
    (op \in {"rlp_decode_fields", "decode"} /\ ~whole) =>
        /\ ~res.ok
        /\ "val" \notin DOMAIN res
        /\ res.err \in DecodeErrors

\* a prefix that ends on a field boundary: all of it but the last field
C6_Witness ==
    /\ op = "rlp_decode_fields"
    /\ ~whole
    /\ tx.payer_s = 0
    /\ tx.value = 255
    /\ Len(out) = len - 1
    /\ ~res.ok

\* C7 (preimage shape, fixed discriminant): encode_for_signing writes one
\* type byte, the RLP list header of the twelve fields, then the bytes of
\* rlp_encode_fields; the type byte is TxType::Sponsored, equal to ty() and
\* DEFAULT_TX_TYPE, whatever the fields hold and after set_chain_id too.
C7_PreimageShape ==
    op = "encode_for_signing" =>
        /\ out = <<TxTypeSponsored>>
                    \o HeaderEncode(TRUE, Len(rlp_encode_fields(tx)))
                    \o rlp_encode_fields(tx)
        /\ out[1] = res
        /\ out[1] = DEFAULT_TX_TYPE

C7_Witness ==
    /\ op = "encode_for_signing"
    /\ homed
    /\ tx.chain_id = 300
    /\ tx.nonce = 127
    /\ out = <<100, 206, 130, 1, 44, 127, 128, 128, 128, 128, 128, 128,
               128, 128, 128, 128>>

\* C8 (mirror): converting a record to the bincode-compatible mirror and the
\* mirror back yields the record; each conversion copies every field from
\* the field of the same name.
C8_MirrorRoundTrip ==
    /\ op = "to_mirror" =>
          /\ DOMAIN res = Fields
          /\ \A f \in Fields \ {"input"} :
                res[f] = tx[f] /\ FromMirror(res)[f] = res[f]
          /\ res.input.bytes = tx.input
          /\ FromMirror(res).input = res.input.bytes
    /\ op = "from_mirror" => (DOMAIN res = Fields /\ res = tx)

C8_Witness ==
    /\ op = "from_mirror"
    /\ res = tx
    /\ tx.max_fee_per_gas = 70000
    /\ tx.max_priority_fee_per_gas = 9

\* C9 (size): size() grows by exactly the growth of `input`, and no change
\* of another field (`to` switching between Create and Call included)
\* changes it.
C9_SizeMonotone ==
    op = "size" =>
        /\ res - size(Default) = Len(tx.input)
        /\ \A f \in Fields : \A v \in FieldDom(f) :
              LET other == size([tx EXCEPT ![f] = v])
              IN  IF f = "input"
                  THEN /\ other - res = Len(v) - Len(tx.input)
                       /\ Len(v) > Len(tx.input) => other > res
                  ELSE other = res

C9_Witness ==
    /\ op = "size"
    /\ tx.to.kind = "Call"
    /\ tx.input = <<1, 2>>
    /\ res = size(Default) + 2

\* C10 (numeric bound): with a base fee the price never exceeds
\* max_fee_per_gas, and max_priority_fee_per_gas + b is evaluated only when
\* the true sum is below max_fee_per_gas, so it never overflows the type.
C10_NoOverflow ==
    (op = "effective_gas_price" /\ res.base_fee.some) =>
        /\ res.got.price <= tx.max_fee_per_gas
        /\ ~res.got.overflow
        /\ res.got.added =>
              tx.max_priority_fee_per_gas + res.base_fee.v < tx.max_fee_per_gas

C10_Witness ==
    /\ op = "effective_gas_price"
    /\ res.got.added
    /\ tx.max_fee_per_gas = FeeMod - 1
    /\ res.base_fee.v = BaseMod \div 2
    /\ tx.max_priority_fee_per_gas > 0
    /\ res.got.price = FeeMod - 2

=============================================================================
